---- MODULE Spec2Model ----
(***************************************************************************)
(* Model of azure-search-vector-image-index-creation-python-sample.ipynb:  *)
(* vectorize_image (the tenacity retry loop around one HTTP POST), the     *)
(* cell that embeds every image of input.json into output.jsonl, and the   *)
(* cell that loads output.jsonl and uploads it to the search index.        *)
(***************************************************************************)
EXTENDS Integers, Sequences, FiniteSets, TLC

VARIABLES
    images,          \* the manifest, json.load(infile)
    exists,          \* output.jsonl exists on disk
    disk,            \* lines of output.jsonl that reached the file
    outbuf,          \* lines held in outfile's buffer, not yet flushed
    pc,              \* position of the notebook
    runs,            \* executions of the embed cell so far
    idx,             \* enumerate index of the embed loop
    vector,          \* the loop's local `vector`
    report,          \* the "Error processing image ..." lines printed
    script,          \* behaviour of the resource and the endpoint during one call
    attempt_number,  \* tenacity retry_state.attempt_number
    calls,           \* requests.post calls made by the running vectorize_image
    response,        \* the local `response` of vectorize_image
    outcome,         \* exception of the last attempt (retry_state.outcome)
    returned,        \* value vectorize_image returned
    raised,          \* exception vectorize_image raised
    uploads,         \* the upload_documents calls received by the index
    publishError     \* exception raised by the upload cell

vars == <<images, exists, disk, outbuf, pc, runs, idx, vector, report, script,
          attempt_number, calls, response, outcome, returned, raised,
          uploads, publishError>>

embedVars == <<script, attempt_number, calls, response, outcome, returned, raised>>
storeVars == <<exists, disk, outbuf>>
loopVars  == <<images, runs, idx, vector, report>>
indexVars == <<uploads, publishError>>

-----------------------------------------------------------------------------
(* Bounds of the model *)

MaxItems == 2
MaxSkipped == 10
MaxRuns == 2
MaxUploads == 1

(* stop_after_attempt(15) *)
MaxAttempts == 15

-----------------------------------------------------------------------------
(* Values *)

None == "None"
NoResponse == "no_response"

Vectors == {"[1,0]", "[0,1]"}

Error(type, msg) == [type |-> type, msg |-> msg]
NoError == Error("", "")

(* image_path values of the manifest, as character sequences *)
Paths == { <<"d", "/", "b", ".", "p">>, <<".", "h">> }

(* a manifest entry: the key may be missing, or hold an empty string *)
Item(present, path) == [present |-> present, image_path |-> path]
Items == {Item(FALSE, <<>>), Item(TRUE, <<>>)} \cup {Item(TRUE, p) : p \in Paths}

RECURSIVE SeqsUpTo(_, _)
SeqsUpTo(S, n) ==
    IF n = 0 THEN {<<>>}
    ELSE LET shorter == SeqsUpTo(S, n - 1)
         IN  shorter \cup {Append(s, x) : s \in {t \in shorter : Len(t) = n - 1}, x \in S}

(* manifests of up to MaxItems entries, and manifests that open with          *)
(* MaxSkipped entries without image_path before entries that have one        *)
Manifests ==
    SeqsUpTo(Items, MaxItems)
    \cup { [i \in 1..MaxSkipped |-> Item(FALSE, <<>>)] \o m :
             m \in SeqsUpTo({Item(TRUE, <<"d", "/", "b", ".", "p">>)}, MaxItems) }

-----------------------------------------------------------------------------
(* The resource and the endpoint seen by one vectorize_image call: the file  *)
(* can be opened or not; the endpoint fails failCount times with failKind    *)
(* (on every call when failCount = Forever) and then answers with final.     *)

Forever == MaxAttempts + 1

FailKinds == {"http_429", "http_503", "http_400", "network_fault"}

MkScript(readable, failKind, failCount, final, v) ==
    [readable |-> readable, failKind |-> failKind, failCount |-> failCount,
     final |-> final, vector |-> v]

NoScript == MkScript(FALSE, "http_503", 0, "ok", "[1,0]")
Unreadable == NoScript

Finals == {<<"ok", v>> : v \in Vectors} \cup {<<"no_vector", "[1,0]">>, <<"http_204", "[1,0]">>}

Scripts ==
    {Unreadable}
    \cup {MkScript(TRUE, "http_503", 0, f[1], f[2]) : f \in Finals}
    \cup {MkScript(TRUE, k, n, f[1], f[2]) :
            k \in FailKinds, n \in (1..MaxAttempts) \cup {Forever}, f \in Finals}

(* what the endpoint does on its n-th call *)
Respond(s, n) ==
    IF n <= s.failCount \/ s.failCount = Forever THEN s.failKind ELSE s.final

StatusCode(kind) ==
    CASE kind = "http_429" -> 429
      [] kind = "http_503" -> 503
      [] kind = "http_400" -> 400
      [] kind = "http_204" -> 204
      [] OTHER -> 200

-----------------------------------------------------------------------------
(* vectorize_image *)

HTTPError(status) ==
    Error("HTTPError",
          CASE status = 429 -> "429 Client Error"
            [] status = 400 -> "400 Client Error"
            [] OTHER -> "503 Server Error")
ConnectionError == Error("ConnectionError", "Connection aborted")
FileNotFoundError == Error("FileNotFoundError", "No such file or directory")
KeyError == Error("KeyError", "'vector'")
JSONDecodeError == Error("JSONDecodeError", "Expecting value")

(* tenacity raises RetryError(last_attempt) when reraise is not set *)
RetryError(last) == Error("RetryError", "RetryError[<Future raised " \o last.type \o ">]")

(* Response.raise_for_status *)
RaisesForStatus(status) == status >= 400 /\ status < 600

(* retry=retry_if_exception_type(requests.HTTPError) *)
RetryPredicate(exc) == exc.type = "HTTPError"

(* stop=stop_after_attempt(15) *)
StopAfterAttempt(n) == n >= MaxAttempts

(* the exception of one attempt, lines 129-133 *)
AttemptException(s, n) ==
    IF ~s.readable THEN FileNotFoundError
    ELSE LET r == Respond(s, n)
         IN  IF r = "network_fault" THEN ConnectionError
             ELSE IF StatusCode(r) # 200 /\ RaisesForStatus(StatusCode(r))
                  THEN HTTPError(StatusCode(r))
                  ELSE NoError

(* what Retrying does with a failed attempt *)
ExhaustedError(last) == RetryError(last)

CallEndpoint ==
    /\ pc = "attempt"
    /\ LET n   == IF script.readable THEN calls + 1 ELSE calls
           exc == AttemptException(script, n)
       IN  /\ calls' = n
           /\ response' = IF script.readable /\ Respond(script, n) # "network_fault"
                          THEN Respond(script, n) ELSE response
           /\ outcome' = exc
           /\ IF exc = NoError
              THEN pc' = "parse" /\ raised' = raised
              ELSE IF RetryPredicate(exc)
                   THEN IF StopAfterAttempt(attempt_number)
                        THEN pc' = "raised" /\ raised' = ExhaustedError(exc)
                        ELSE pc' = "wait" /\ raised' = raised
                   ELSE pc' = "raised" /\ raised' = exc
    /\ UNCHANGED <<script, attempt_number, returned>>
    /\ UNCHANGED <<storeVars, loopVars, indexVars>>

(* wait=wait_random_exponential(min=15, max=60): sleep, then the next attempt *)
Backoff ==
    /\ pc = "wait"
    /\ attempt_number' = attempt_number + 1
    /\ pc' = "attempt"
    /\ UNCHANGED <<script, calls, response, outcome, returned, raised>>
    /\ UNCHANGED <<storeVars, loopVars, indexVars>>

(* vector = response.json()["vector"]; return vector *)
ParseResponse ==
    /\ pc = "parse"
    /\ CASE response = "ok" ->
              /\ returned' = script.vector
              /\ pc' = "returned"
              /\ raised' = raised
         [] response = "no_vector" ->
              /\ raised' = KeyError
              /\ pc' = "raised"
              /\ returned' = returned
         [] OTHER ->
              /\ raised' = JSONDecodeError
              /\ pc' = "raised"
              /\ returned' = returned
    /\ UNCHANGED <<script, attempt_number, calls, response, outcome>>
    /\ UNCHANGED <<storeVars, loopVars, indexVars>>

EmbedIdle ==
    /\ script = NoScript
    /\ attempt_number = 0
    /\ calls = 0
    /\ response = NoResponse
    /\ outcome = NoError
    /\ returned = None
    /\ raised = NoError

EmbedStart(s) ==
    /\ script = s
    /\ attempt_number = 1
    /\ calls = 0
    /\ response = NoResponse
    /\ outcome = NoError
    /\ returned = None
    /\ raised = NoError

(* one call of vectorize_image on its own (as for the query image) *)
InitEmbed ==
    /\ images = <<>>
    /\ exists = FALSE
    /\ disk = <<>>
    /\ outbuf = <<>>
    /\ runs = 0
    /\ idx = 0
    /\ vector = None
    /\ report = <<>>
    /\ uploads = <<>>
    /\ publishError = NoError
    /\ pc = "attempt"
    /\ \E s \in Scripts : EmbedStart(s)

NextEmbed == CallEndpoint \/ Backoff \/ ParseResponse

SpecEmbed == InitEmbed /\ [][NextEmbed]_vars

-----------------------------------------------------------------------------
(* The embed cell: input.json -> output.jsonl *)

(* if image_path: of image_data.get('image_path', None) *)
Truthy(item) == item.present /\ item.image_path # <<>>

(* str.rfind, 1-based; 0 when absent *)
RFind(p, c) ==
    LET at == {i \in 1..Len(p) : p[i] = c}
    IN  IF at = {} THEN 0 ELSE CHOOSE i \in at : \A j \in at : j <= i

(* os.path.basename *)
Basename(p) == SubSeq(p, RFind(p, "/") + 1, Len(p))

(* os.path.splitext(p)[0]: the last dot splits, unless only dots precede it *)
SplitextRoot(p) ==
    LET sep == RFind(p, "/")
        dot == RFind(p, ".")
    IN  IF dot > sep /\ \E i \in (sep + 1)..(dot - 1) : p[i] # "."
        THEN SubSeq(p, 1, dot - 1)
        ELSE p

(* filename, _ = os.path.splitext(os.path.basename(image_path)) *)
Description(path) == SplitextRoot(Basename(path))

Digits == <<"0", "1", "2", "3", "4", "5", "6", "7", "8", "9">>

(* f'{idx}' *)
RECURSIVE Str(_)
Str(n) == IF n < 10 THEN <<Digits[n + 1]>> ELSE Str(n \div 10) \o <<Digits[(n % 10) + 1]>>

(* the dict with the id cut to its last digit *)
Result_LastDigit(i, v, path) ==
    [id |-> <<Digits[(i % 10) + 1]>>, image_vector |-> v, description |-> Description(path)]

(* the dict `result` of lines 170-174 *)
Result(i, v, path) == [id |-> Str(i), image_vector |-> v, description |-> Description(path)]

(* json.dumps(result): None is written as null *)
JsonDumps(r) ==
    [id |-> r.id,
     image_vector |-> IF r.image_vector = None THEN "null" ELSE r.image_vector,
     description |-> r.description]

(* json.loads(line.strip()): null is read as None *)
JsonLoads(text) ==
    [id |-> text.id,
     image_vector |-> IF text.image_vector = "null" THEN None ELSE text.image_vector,
     description |-> text.description]

(* a line of the file: its text, and whether its newline was written *)
Line(text, nl) == [text |-> text, nl |-> nl]

(* the items of a manifest the loop reaches in 0-based position i *)
ItemAt(m, i) == m[i + 1]

(* endpoint behaviours drawn while a batch runs *)
BatchScripts ==
    { Unreadable,
      MkScript(TRUE, "http_503", 0, "ok", "[1,0]"),
      MkScript(TRUE, "http_503", 0, "ok", "[0,1]"),
      MkScript(TRUE, "http_503", 1, "ok", "[1,0]"),
      MkScript(TRUE, "http_400", Forever, "ok", "[1,0]"),
      MkScript(TRUE, "network_fault", 1, "ok", "[1,0]"),
      MkScript(TRUE, "http_503", 0, "no_vector", "[1,0]"),
      MkScript(TRUE, "http_503", 0, "http_204", "[1,0]") }

RunPcs == {"loop", "attempt", "wait", "parse", "returned", "raised",
           "write", "write_nl", "flush"}

(* the file opened for appending *)
Truncated_Append(file) == file

(* open(output_json_file, 'w'): the file is created or emptied *)
Truncated(file) == <<>>

(* json.load(infile); open(output_json_file, 'w') *)
BeginRun ==
    /\ pc \in {"idle", "done", "crashed"}
    /\ runs < MaxRuns
    /\ runs' = runs + 1
    /\ images' \in Manifests
    /\ exists' = TRUE
    /\ disk' = Truncated(disk)
    /\ outbuf' = <<>>
    /\ idx' = 0
    /\ vector' = None
    /\ report' = <<>>
    /\ pc' = "loop"
    /\ UNCHANGED <<embedVars, indexVars>>

(* the manifest is used up: the with block closes the file *)
EndRun ==
    /\ pc = "loop"
    /\ idx = Len(images)
    /\ disk' = disk \o outbuf
    /\ outbuf' = <<>>
    /\ pc' = "done"
    /\ UNCHANGED <<exists, loopVars, embedVars, indexVars>>

(* an item without image_path, or with an empty one, is passed over *)
SkipItem ==
    /\ pc = "loop"
    /\ idx < Len(images)
    /\ ~Truthy(ItemAt(images, idx))
    /\ idx' = idx + 1
    /\ UNCHANGED <<pc, images, runs, vector, report, storeVars, embedVars, indexVars>>

(* vectorize_image(...) is called for the item *)
StartEmbed ==
    /\ pc = "loop"
    /\ idx < Len(images)
    /\ Truthy(ItemAt(images, idx))
    /\ \E s \in BatchScripts : script' = s
    /\ attempt_number' = 1
    /\ calls' = 0
    /\ response' = NoResponse
    /\ outcome' = NoError
    /\ returned' = None
    /\ raised' = NoError
    /\ pc' = "attempt"
    /\ UNCHANGED <<storeVars, loopVars, indexVars>>

ResetEmbed ==
    /\ script' = NoScript
    /\ attempt_number' = 0
    /\ calls' = 0
    /\ response' = NoResponse
    /\ outcome' = NoError
    /\ returned' = None
    /\ raised' = NoError

(* vector = vectorize_image(...) *)
EmbedReturned ==
    /\ pc = "returned"
    /\ vector' = returned
    /\ pc' = "write"
    /\ UNCHANGED <<images, runs, idx, report, storeVars, embedVars, indexVars>>

(* the failed item is reported and passed over without a record *)
EmbedRaised_Abandon ==
    /\ pc = "raised"
    /\ report' = Append(report, [index |-> idx, msg |-> raised.msg])
    /\ vector' = None
    /\ idx' = idx + 1
    /\ pc' = "loop"
    /\ ResetEmbed
    /\ UNCHANGED <<images, runs, storeVars, indexVars>>

(* the failure is reported and ends the loop *)
EmbedRaised_Abort ==
    /\ pc = "raised"
    /\ report' = Append(report, [index |-> idx, msg |-> raised.msg])
    /\ vector' = None
    /\ pc' = "done"
    /\ ResetEmbed
    /\ UNCHANGED <<images, runs, idx, storeVars, indexVars>>

(* the entry printed for a failed item *)
ReportEntry(i, exc) == [index |-> i, msg |-> exc.msg]

(* except Exception as e: print(...); vector = None *)
EmbedRaised ==
    /\ pc = "raised"
    /\ report' = Append(report, ReportEntry(idx, raised))
    /\ vector' = None
    /\ pc' = "write"
    /\ UNCHANGED <<images, runs, idx, storeVars, embedVars, indexVars>>

(* outfile.write(json.dumps(result)) *)
WriteRecord ==
    /\ pc = "write"
    /\ outbuf' = Append(outbuf,
                        Line(JsonDumps(Result(idx, vector, ItemAt(images, idx).image_path)),
                             FALSE))
    /\ pc' = "write_nl"
    /\ UNCHANGED <<exists, disk, loopVars, embedVars, indexVars>>

(* outfile.write('\n') *)
WriteNewline ==
    /\ pc = "write_nl"
    /\ outbuf' = [outbuf EXCEPT ![Len(outbuf)].nl = TRUE]
    /\ pc' = "flush"
    /\ UNCHANGED <<exists, disk, loopVars, embedVars, indexVars>>

(* no flush: the buffer is kept until the file is closed *)
Flushed_Never(file, buf) == <<file, buf>>

(* outfile.flush(): the file and the buffer afterwards *)
Flushed(file, buf) == <<file \o buf, <<>>>>

(* outfile.flush(), and the loop moves to the next item *)
Flush ==
    /\ pc = "flush"
    /\ disk' = Flushed(disk, outbuf)[1]
    /\ outbuf' = Flushed(disk, outbuf)[2]
    /\ idx' = idx + 1
    /\ vector' = None
    /\ pc' = "loop"
    /\ ResetEmbed
    /\ UNCHANGED <<exists, images, runs, report, indexVars>>

(* the process dies during the run: what the buffer held is lost *)
Crash ==
    /\ pc \in RunPcs
    /\ pc' = "crashed"
    /\ outbuf' = <<>>
    /\ vector' = None
    /\ ResetEmbed
    /\ UNCHANGED <<images, runs, idx, report, exists, disk, indexVars>>

-----------------------------------------------------------------------------
(* The upload cell: output.jsonl -> upload_documents *)

(* a loader that drops the records whose vector is null *)
Load_SkipNull(file) ==
    LET kept == SelectSeq(file, LAMBDA l : l.text.image_vector # "null")
    IN  [i \in 1..Len(kept) |-> JsonLoads(kept[i].text)]

(* for line in file: data.append(json.loads(line.strip())) *)
Load(file) == [i \in 1..Len(file) |-> JsonLoads(file[i].text)]

(* the documents handed to upload_documents *)
Documents(data) == data

Publish ==
    /\ pc \in {"idle", "done", "crashed", "published"}
    /\ Len(uploads) < MaxUploads
    /\ IF exists
       THEN /\ uploads' = Append(uploads, Documents(Load(disk)))
            /\ publishError' = NoError
       ELSE /\ uploads' = uploads
            /\ publishError' = FileNotFoundError
    /\ pc' = "published"
    /\ UNCHANGED <<storeVars, loopVars, embedVars>>

Init ==
    /\ images = <<>>
    /\ exists = FALSE
    /\ disk = <<>>
    /\ outbuf = <<>>
    /\ runs = 0
    /\ idx = 0
    /\ vector = None
    /\ report = <<>>
    /\ uploads = <<>>
    /\ publishError = NoError
    /\ pc = "idle"
    /\ EmbedIdle

Next ==
    \/ BeginRun
    \/ EndRun
    \/ SkipItem
    \/ StartEmbed
    \/ CallEndpoint
    \/ Backoff
    \/ ParseResponse
    \/ EmbedReturned
    \/ EmbedRaised
    \/ WriteRecord
    \/ WriteNewline
    \/ Flush
    \/ Crash
    \/ Publish

Spec == Init /\ [][Next]_vars

-----------------------------------------------------------------------------
(* The error taxonomy of the specification, applied to the errors of the code *)

TransientKinds == {"http_429", "http_503", "network_fault"}

IsTransient(exc) ==
    \/ exc = ConnectionError
    \/ exc = HTTPError(429)
    \/ exc = HTTPError(503)

EmbedEnded == pc \in {"returned", "raised"}

(* C3: an endpoint that fails transiently exactly k < MaxAttempts times and   *)
(* then succeeds makes vectorize_image return the successful vector after     *)
(* exactly k + 1 calls of the endpoint.                                       *)
C3_RetryLaw ==
    ( /\ EmbedEnded
      /\ script.readable
      /\ script.failCount < MaxAttempts
      /\ script.failKind \in TransientKinds
      /\ script.final = "ok" )
    => ( /\ pc = "returned"
         /\ returned = script.vector
         /\ calls = script.failCount + 1 )

(* C4: an endpoint that fails transiently on every call makes vectorize_image *)
(* attempt exactly MaxAttempts times and then raise.                          *)
C4_ExhaustionLaw ==
    ( /\ EmbedEnded
      /\ script.readable
      /\ script.failCount = Forever
      /\ script.failKind \in TransientKinds )
    => ( /\ pc = "raised"
         /\ calls = MaxAttempts )

(* C5: a failed attempt is repeated if and only if its failure is transient;  *)
(* a permanent failure ends vectorize_image after exactly one endpoint call.  *)
C5_RetriesOnlyTransient ==
    /\ (pc = "wait" => IsTransient(outcome))
    /\ (pc = "raised" /\ IsTransient(outcome) => attempt_number = MaxAttempts)
    /\ ( ( /\ pc = "raised"
           /\ script.readable
           /\ \/ script.failCount > 0 /\ script.failKind = "http_400"
              \/ script.failCount = 0 /\ script.final = "no_vector" )
         => calls = 1 )

(* C6: when vectorize_image exhausts its attempts, the error it raises is the *)
(* error of the last failed attempt itself.                                   *)
C6_LastErrorSurfaced ==
    ( /\ pc = "raised"
      /\ attempt_number = MaxAttempts
      /\ outcome # NoError )
    => raised = outcome

-----------------------------------------------------------------------------
(* Vocabulary of the properties of the embed cell and the upload cell *)

DigitValue(c) == CHOOSE d \in 0..9 : Digits[d + 1] = c

(* the number a digit string denotes *)
RECURSIVE NumberOf(_)
NumberOf(s) == IF s = <<>> THEN 0 ELSE 10 * NumberOf(SubSeq(s, 1, Len(s) - 1)) + DigitValue(s[Len(s)])

(* a decimal string as Python prints it: digits only, no leading zero *)
Canonical(s) ==
    /\ Len(s) >= 1
    /\ \A i \in 1..Len(s) : \E d \in 0..9 : Digits[d + 1] = s[i]
    /\ (Len(s) > 1 => s[1] # "0")

(* 0-based positions, in order, of the first n items that have an image_path *)
RECURSIVE Embedded(_, _)
Embedded(m, n) ==
    IF n = 0 THEN <<>>
    ELSE IF Truthy(m[n]) THEN Append(Embedded(m, n - 1), n - 1) ELSE Embedded(m, n - 1)

(* line is the complete record of the item at 0-based position i of m *)
RecordFor(line, m, i) ==
    /\ line.nl
    /\ Canonical(line.text.id)
    /\ NumberOf(line.text.id) = i
    /\ line.text.description = Description(ItemAt(m, i).image_path)
    /\ line.text.image_vector \in Vectors \cup {"null"}

(* the lines of file whose id denotes position i *)
LinesOf(file, i) == {k \in 1..Len(file) : NumberOf(file[k].text.id) = i}

WritePcs == {"write", "write_nl", "flush"}

(* C1, as stated: a completed run leaves one record per manifest item, the    *)
(* i-th record being the one of the i-th item, whatever the items hold.       *)
C1_OneRecordPerItem ==
    pc = "done" =>
        /\ Len(disk) = Len(images)
        /\ \A i \in 1..Len(images) : RecordFor(disk[i], images, i - 1)

(* C1, amended: a completed run leaves one record for each manifest item that *)
(* has a non-empty image_path, in manifest order, each holding the item's own *)
(* manifest index as id; an item without image_path gets no record.           *)
C1_OneRecordPerEmbeddedItem ==
    pc = "done" =>
        LET E == Embedded(images, Len(images))
        IN  /\ Len(disk) = Len(E)
            /\ \A k \in 1..Len(E) : RecordFor(disk[k], images, E[k])

C1_Witness ==
    /\ pc = "done"
    /\ Len(images) = 2
    /\ ~Truthy(images[1])
    /\ Truthy(images[2])
    /\ Len(report) = 1
    /\ Len(disk) = 1

(* what a failed item leaves behind once the loop has passed it *)
FailureKept(k) ==
    LET i == report[k].index
    IN  /\ report[k].msg # ""
        /\ i < Len(images)
        /\ Truthy(ItemAt(images, i))
        /\ (i < idx \/ pc = "done") =>
              /\ Cardinality(LinesOf(disk, i)) = 1
              /\ \A n \in LinesOf(disk, i) :
                    /\ RecordFor(disk[n], images, i)
                    /\ disk[n].text.image_vector = "null"

(* the failure of the item in hand is reported and its vector is absent *)
FailureHandled ==
    (pc \in WritePcs /\ raised # NoError) =>
        /\ vector = None
        /\ Len(report) >= 1
        /\ report[Len(report)] = [index |-> idx, msg |-> raised.msg]
        /\ (pc = "flush" =>
              /\ Len(outbuf) = 1
              /\ RecordFor(outbuf[1], images, idx)
              /\ outbuf[1].text.image_vector = "null")

(* C2, as stated: a failed embed call does not abort the run; the item's      *)
(* record is written with a null vector and its description, the failure is   *)
(* reported with index and message, and every later item is still written.    *)
C2_FailureIsolation ==
    /\ FailureHandled
    /\ \A k \in 1..Len(report) : FailureKept(k)
    /\ pc = "done" =>
          \A k \in 1..Len(report) :
              \A j \in (report[k].index + 1)..(Len(images) - 1) :
                  Cardinality(LinesOf(disk, j)) = 1

(* C2, amended: as stated, except that a later item is written only when it   *)
(* has a non-empty image_path.                                                *)
C2_FailureIsolationEmbedded ==
    /\ FailureHandled
    /\ \A k \in 1..Len(report) : FailureKept(k)
    /\ pc = "done" =>
          \A k \in 1..Len(report) :
              \A j \in (report[k].index + 1)..(Len(images) - 1) :
                  Truthy(ItemAt(images, j)) =>
                      /\ Cardinality(LinesOf(disk, j)) = 1
                      /\ \A n \in LinesOf(disk, j) : RecordFor(disk[n], images, j)

C2_Witness ==
    /\ pc = "done"
    /\ Len(images) = 2
    /\ Len(report) = 1
    /\ report[1].index = 0
    /\ Len(disk) = 2
    /\ disk[1].text.image_vector = "null"
    /\ disk[2].text.image_vector \in Vectors

(* C7: the record of an item is written and flushed before the next embed     *)
(* call starts; at every point of a run, and after a crash at any point, the  *)
(* file holds exactly the complete records of the finished items, in order,   *)
(* and at most the record of the item in hand is still in the buffer.         *)
C7_CrashSafe ==
    pc \in RunPcs \cup {"crashed"} =>
        LET E == Embedded(images, idx)
        IN  /\ Len(disk) = Len(E)
            /\ \A k \in 1..Len(E) : RecordFor(disk[k], images, E[k])
            /\ (pc \notin {"write_nl", "flush"} => outbuf = <<>>)
            /\ Len(outbuf) <= 1

C7_Witness ==
    /\ pc = "crashed"
    /\ idx = 1
    /\ Len(images) = 2
    /\ Truthy(images[1])
    /\ Truthy(images[2])
    /\ Len(disk) = 1
    /\ disk[1].text.image_vector \in Vectors

(* C8: in every state the ids of the stored records are pairwise distinct,    *)
(* each id is the decimal string of the manifest index of the item the record *)
(* was written for, and no item has more than one record.                     *)
C8_UniqueIds ==
    LET all == disk \o outbuf
    IN  /\ \A k \in 1..Len(all) :
              /\ Canonical(all[k].text.id)
              /\ NumberOf(all[k].text.id) < Len(images)
              /\ NumberOf(all[k].text.id) <= idx
              /\ Truthy(ItemAt(images, NumberOf(all[k].text.id)))
              /\ all[k].text.description
                     = Description(ItemAt(images, NumberOf(all[k].text.id)).image_path)
        /\ \A k, l \in 1..Len(all) : k # l => all[k].text.id # all[l].text.id
        /\ \A i \in 0..(Len(images) - 1) : Cardinality(LinesOf(all, i)) <= 1

C8_Witness ==
    /\ pc = "done"
    /\ Len(disk) = 2
    /\ disk[1].text.id = <<"1", "0">>
    /\ disk[2].text.id = <<"1", "1">>
    /\ disk[1].text.description = disk[2].text.description

(* the documents the lines of a file stand for *)
ExpectedDocuments(file) ==
    [i \in 1..Len(file) |->
        [id |-> file[i].text.id,
         description |-> file[i].text.description,
         image_vector |-> IF file[i].text.image_vector \in Vectors
                          THEN file[i].text.image_vector ELSE None]]

(* C9: the upload cell sends every record of the file, in file order, in one  *)
(* upload call, a record with a null vector like any other.                   *)
C9_PublishAll ==
    [][ (pc' = "published" /\ exists) =>
            uploads' = Append(uploads, ExpectedDocuments(disk)) ]_vars

C9_Witness ==
    /\ pc = "published"
    /\ Len(uploads) = 1
    /\ Len(uploads[1]) = 2
    /\ uploads[1][1].image_vector = None
    /\ uploads[1][2].image_vector \in Vectors

(* C10: starting a run empties the file before the first item is processed,   *)
(* so the file never holds a record of an earlier run, and a run that crashes *)
(* before finishing its first item leaves the file empty.                     *)
C10_OnlyLatestRun ==
    runs >= 1 =>
        LET E == Embedded(images, IF pc \in {"done", "published"} THEN Len(images) ELSE idx)
        IN  /\ Len(disk) <= Len(E)
            /\ (pc = "loop" /\ idx = 0 => disk = <<>>)
            /\ (pc = "crashed" /\ E = <<>> => disk = <<>>)
            /\ \A k \in 1..Len(disk) :
                  disk[k].text.description = Description(ItemAt(images, E[k]).image_path)

C10_Witness ==
    /\ runs = 2
    /\ pc = "crashed"
    /\ idx = 0
    /\ Len(images) = 2
    /\ disk = <<>>

====
